---------------------------- MODULE Spec2Model ----------------------------
(***************************************************************************)
(* Ada Remote: secure session establishment.                               *)
(*                                                                         *)
(*   SpecKeys     crates/crypto: X25519 key pairs and the contexts built   *)
(*                from their shared secrets (KeyPair)                      *)
(*   SpecChannel  crates/crypto: encrypt and decrypt on contexts built     *)
(*                from shared secrets (EncryptionContext)                  *)
(*   SpecPasswords crates/crypto: hash_password, verify_password and       *)
(*                generate_session_password                                *)
(*   Spec         relay-server: the accept loop, one handler per           *)
(*                connection, the session registry behind its RwLock       *)
(*   SpecThree    the same relay with three connections that register and  *)
(*                join                                                     *)
(*   SpecApps     desktop: start_host_session and connect_to_session, with *)
(*                crates/core's SessionId and its textual forms            *)
(*   SpecPeers    crates/network: NetworkPeer and its connection state     *)
(*   SpecDesktop  desktop: the four commands on one application's state    *)
(***************************************************************************)
EXTENDS Integers, Sequences, FiniteSets, TLC

VARIABLES
    \* ---- crates/crypto ----
    keypairs,      \* KeyPairIds -> the KeyPair object held under that name
    uses,          \* KeyPairIds -> number of compute_shared_secret calls made on it
    shared,        \* KeyPairIds -> the SharedSecret the key pair was turned into
    contexts,      \* KeyPairIds -> the EncryptionContext built from that secret
    nonceLog,      \* context -> nonce -> number of messages returned with it
    lastEncrypt,   \* the latest encrypt call with its result
    lastDecrypt,   \* the latest decrypt call made on that message, with its result
    hashed,        \* the latest hash_password call with its result
    verified,      \* the latest verify_password call with its result
    generated,     \* the latest generate_session_password call with its result
    \* ---- relay-server ----
    accepting,     \* main is in its accept loop
    pc,            \* Conns -> where that connection's handler is
    cur,           \* Conns -> the signaling message the handler is working on
    resp,          \* Conns -> the response handle_signaling_message returned
    writer,        \* the holder of the registry's write lock
    sessions,      \* ServerState.sessions: key string -> Session
    loaded,        \* Conns -> the table as the handler's map operation read it
    sent,          \* Conns -> number of responses sent on that connection
    received,      \* number of frames the relay has read
    forwarded,     \* Conns -> the peer messages the relay has delivered to it
    \* ---- relay-server: what has happened so far ----
    regReturned,   \* the keys for which a Register returned its success
    regAcked,      \* the keys for which a Register's success was sent
    joinAcked,     \* the keys for which a Join's success was sent
    joinedSince,   \* the keys a Join has succeeded for since their latest Register
    startedAfter,  \* Conns -> what had happened when the current call started
    overlapped,    \* Conns -> the current call started while another was running
    owed,          \* the messages read from one endpoint of a matched session
    \* ---- desktop ----
    host_session,  \* the host application's AppState.current_session
    host_call,     \* the latest start_host_session call with its result
    client_session,\* the client application's AppState.current_session
    client_call,   \* the latest connect_to_session call with its result
    \* ---- crates/network ----
    peers,         \* PeerIds -> the NetworkPeer held under that name
    peer_calls,    \* PeerIds -> the latest operation on that peer
    \* ---- desktop: one application and all its commands ----
    current_session, \* AppState.current_session
    command        \* the latest command with its result

cryptoVars == <<keypairs, uses, shared, contexts, nonceLog, lastEncrypt, lastDecrypt>>
passwordVars == <<hashed, verified, generated>>
history == <<regReturned, regAcked, joinAcked, joinedSince, startedAfter, overlapped, owed>>
relayVars == <<accepting, pc, cur, resp, writer, sessions, loaded, sent, received,
               forwarded, history>>
appVars == <<host_session, host_call, client_session, client_call>>
peerVars == <<peers, peer_calls>>
desktopVars == <<current_session, command>>
vars == <<cryptoVars, passwordVars, relayVars, appVars, peerVars, desktopVars>>

-----------------------------------------------------------------------------
(* Results: Rust's Result<T, E>.                                           *)
Ok(v) == [ok |-> TRUE, value |-> v, kind |-> "", text |-> ""]
Err(k, t) == [ok |-> FALSE, value |-> <<>>, kind |-> k, text |-> t]

-----------------------------------------------------------------------------
(* crates/crypto: key exchange.                                            *)
(* X25519 is scalar multiplication in a commutative group; the model keeps *)
(* the group law and scales the group down to the units modulo DHPrime,    *)
(* written multiplicatively, with base point DHBase.                       *)
DHPrime == 23
DHBase == 5
MaxSecret == 2          \* secrets are drawn from 1..MaxSecret
KeyPairIds == {"alice", "bob", "carol"}
Scalars == 1..MaxSecret

RECURSIVE ModExp(_, _)
ModExp(b, e) == IF e = 0 THEN 1 ELSE (b * ModExp(b, e - 1)) % DHPrime

\* PublicKey::from(&secret)
PublicKeyFrom(secret) == ModExp(DHBase, secret)

\* EphemeralSecret::diffie_hellman(self, their_public)
diffie_hellman(secret, their_public) == ModExp(their_public, secret)

NoKeyPair == [state |-> "none", secret |-> 0, public |-> 0]
NoSecret == [set |-> FALSE, peer_public |-> 0, value |-> 0]
NoContext == [set |-> FALSE, key |-> 0]

\* KeyPair::generate, given the secret the RNG produced
generate(secret) == [state |-> "live", secret |-> secret, public |-> PublicKeyFrom(secret)]

\* KeyPair::public_key
public_key(kp) == kp.public

compute_shared_secret_own_public(kp, peer_public) == diffie_hellman(kp.secret, kp.public)

\* KeyPair::compute_shared_secret: the value returned
compute_shared_secret(kp, peer_public) == diffie_hellman(kp.secret, peer_public)

\* The public keys a caller can hold: those of the generated key pairs.
KnownPublics == {keypairs[k].public : k \in {j \in KeyPairIds : keypairs[j].state # "none"}}

MaxUses == 3            \* cap of the per-key-pair call counter

Generate(k) ==
    /\ keypairs[k].state = "none"
    /\ \E s \in Scalars : keypairs' = [keypairs EXCEPT ![k] = generate(s)]
    /\ UNCHANGED <<uses, shared, contexts, nonceLog, lastEncrypt, lastDecrypt>>
    /\ UNCHANGED <<passwordVars, relayVars, appVars, peerVars, desktopVars>>

\* compute_shared_secret takes self by reference and leaves the key pair usable
ComputeSharedSecretBorrowing(k, peer_public) ==
    /\ keypairs[k].state = "live"
    /\ uses[k] < MaxUses
    /\ shared' = [shared EXCEPT ![k] =
           [set |-> TRUE, peer_public |-> peer_public,
            value |-> compute_shared_secret(keypairs[k], peer_public)]]
    /\ uses' = [uses EXCEPT ![k] = @ + 1]
    /\ UNCHANGED <<keypairs, contexts, nonceLog, lastEncrypt, lastDecrypt>>
    /\ UNCHANGED <<passwordVars, relayVars, appVars, peerVars, desktopVars>>

\* A call of compute_shared_secret(self, peer_public): `self` is taken by
\* value, so the call needs a key pair that has not been moved, and moves it.
ComputeSharedSecret(k, peer_public) ==
    /\ keypairs[k].state = "live"
    /\ uses[k] < MaxUses
    /\ shared' = [shared EXCEPT ![k] =
           [set |-> TRUE, peer_public |-> peer_public,
            value |-> compute_shared_secret(keypairs[k], peer_public)]]
    /\ keypairs' = [keypairs EXCEPT ![k].state = "moved"]
    /\ uses' = [uses EXCEPT ![k] = @ + 1]
    /\ UNCHANGED <<contexts, nonceLog, lastEncrypt, lastDecrypt>>
    /\ UNCHANGED <<passwordVars, relayVars, appVars, peerVars, desktopVars>>


-----------------------------------------------------------------------------
(* crates/crypto: EncryptionContext.                                       *)
(* ChaCha20-Poly1305 is modelled as a stream cipher with an ideal          *)
(* authenticator: the body is the plaintext masked by a keystream of the   *)
(* key and the nonce, the tag is the term (key, nonce, aad, body).         *)
Bytes == {0, 1}         \* bytes are scaled down to bits
MaxPlainLen == 1        \* longest plaintext
NonceSpace == 2         \* nonces are drawn from 0..NonceSpace-1
MaxEncrypts == 2        \* encrypt calls recorded

ByteMod == Cardinality(Bytes)
SeqsUpTo(S, n) == UNION {[1..m -> S] : m \in 0..n}
Plaintexts == SeqsUpTo(Bytes, MaxPlainLen)
AssociatedData == {<<>>, <<0>>}
Nonces == 0..(NonceSpace - 1)

keystream(key, nonce, i) == (key + nonce + i) % ByteMod
Tag(key, nonce, aad, body) == <<"tag", key, nonce, aad, body>>

\* ChaCha20Poly1305::encrypt(nonce, Payload { msg, aad })
aead_encrypt(key, nonce, msg, aad) ==
    LET body == [i \in 1..Len(msg) |-> (msg[i] + keystream(key, nonce, i)) % ByteMod]
    IN  [body |-> body, tag |-> Tag(key, nonce, aad, body)]

\* ChaCha20Poly1305::decrypt(nonce, Payload { msg, aad })
aead_decrypt(key, nonce, ct, aad) ==
    IF ct.tag = Tag(key, nonce, aad, ct.body)
    THEN Ok([i \in 1..Len(ct.body) |->
                (ct.body[i] + ByteMod - keystream(key, nonce, i)) % ByteMod])
    ELSE Err("aead", "aead::Error")

\* EncryptionContext::from_shared_secret: the secret's bytes are the key
from_shared_secret(shared_secret) == Ok([set |-> TRUE, key |-> shared_secret.value])

\* EncryptionContext::encrypt, given the nonce the RNG produced
encrypt(ctx, nonce_bytes, plaintext, associated_data) ==
    Ok([ciphertext |-> aead_encrypt(ctx.key, nonce_bytes, plaintext, associated_data),
        nonce |-> nonce_bytes])

decrypt_unauthenticated(ctx, em, associated_data) ==
    Ok([i \in 1..Len(em.ciphertext.body) |->
           (em.ciphertext.body[i] + ByteMod - keystream(ctx.key, em.nonce, i)) % ByteMod])

decrypt_zero_nonce(ctx, em, associated_data) ==
    LET r == aead_decrypt(ctx.key, 0, em.ciphertext, associated_data)
    IN  IF r.ok THEN r ELSE Err("Session", <<"Decryption failed: ", r.text>>)

\* EncryptionContext::decrypt
decrypt(ctx, em, associated_data) ==
    LET r == aead_decrypt(ctx.key, em.nonce, em.ciphertext, associated_data)
    IN  IF r.ok THEN r ELSE Err("Session", <<"Decryption failed: ", r.text>>)

\* What a party without the key can do to a ciphertext in transit.
Tamperings == {"intact", "flip_body", "flip_tag", "truncate"}
Tamper(ct, how) ==
    CASE how = "intact"    -> ct
      [] how = "flip_body" -> [ct EXCEPT !.body =
                                 [i \in 1..Len(ct.body) |->
                                    IF i = 1 THEN (ct.body[i] + 1) % ByteMod ELSE ct.body[i]]]
      [] how = "flip_tag"  -> [ct EXCEPT !.tag = <<"flipped", ct.tag>>]
      [] how = "truncate"  -> [body |-> <<>>, tag |-> <<"short">>]

RECURSIVE Sum(_, _)
Sum(f, S) == IF S = {} THEN 0 ELSE LET x == CHOOSE y \in S : TRUE IN f[x] + Sum(f, S \ {x})

\* the number of messages encrypt has returned
Encrypts == Sum([k \in KeyPairIds |-> Sum(nonceLog[k], Nonces)], KeyPairIds)

\* The parties of a channel, and the shared secrets their contexts are
\* built from: those of the exchanges between the secrets 1 and 2, and of
\* secret 1 with its own public key.
Parties == {"alice", "bob"}
Exchanges == {<<1, 2>>, <<2, 1>>, <<1, 1>>}
SharedSecrets ==
    {[set |-> TRUE, peer_public |-> PublicKeyFrom(x[2]),
      value |-> diffie_hellman(x[1], PublicKeyFrom(x[2]))] : x \in Exchanges}

NoEncrypt == [done |-> FALSE]
NoDecrypt == [done |-> FALSE]

FromSharedSecret(k) ==
    /\ shared[k].set
    /\ ~contexts[k].set
    /\ contexts' = [contexts EXCEPT ![k] = from_shared_secret(shared[k]).value]
    /\ UNCHANGED <<keypairs, uses, shared, nonceLog, lastEncrypt, lastDecrypt>>
    /\ UNCHANGED <<passwordVars, relayVars, appVars, peerVars, desktopVars>>

Encrypt(k, plaintext, associated_data) ==
    /\ contexts[k].set
    /\ Encrypts < MaxEncrypts
    /\ \E nonce_bytes \in Nonces :
          LET result == encrypt(contexts[k], nonce_bytes, plaintext, associated_data)
          IN  /\ lastEncrypt' = [done |-> TRUE, ctx |-> k, key |-> contexts[k].key,
                                 plaintext |-> plaintext, aad |-> associated_data,
                                 result |-> result]
              /\ nonceLog' = [nonceLog EXCEPT ![k][result.value.nonce] = @ + 1]
    /\ lastDecrypt' = NoDecrypt
    /\ UNCHANGED <<keypairs, uses, shared, contexts>>
    /\ UNCHANGED <<passwordVars, relayVars, appVars, peerVars, desktopVars>>

\* decrypt on context k of the latest message, as it arrives
Decrypt(k, how, associated_data) ==
    /\ contexts[k].set
    /\ lastEncrypt.done
    /\ LET sentMsg == lastEncrypt.result.value
           em == [sentMsg EXCEPT !.ciphertext = Tamper(sentMsg.ciphertext, how)]
       IN  lastDecrypt' = [done |-> TRUE, ctx |-> k, key |-> contexts[k].key,
                           em |-> em, aad |-> associated_data,
                           result |-> decrypt(contexts[k], em, associated_data)]
    /\ UNCHANGED <<keypairs, uses, shared, contexts, nonceLog, lastEncrypt>>
    /\ UNCHANGED <<passwordVars, relayVars, appVars, peerVars, desktopVars>>

\* Two contexts built from shared secrets; no message yet.
InitChannel ==
    /\ keypairs = [k \in KeyPairIds |-> NoKeyPair]
    /\ uses = [k \in KeyPairIds |-> 0]
    /\ shared = [k \in KeyPairIds |-> NoSecret]
    /\ \E sa, sb \in SharedSecrets :
          contexts = [k \in KeyPairIds |->
                        CASE k = "alice" -> from_shared_secret(sa).value
                          [] k = "bob"   -> from_shared_secret(sb).value
                          [] OTHER       -> NoContext]
    /\ nonceLog = [k \in KeyPairIds |-> [n \in Nonces |-> 0]]
    /\ lastEncrypt = NoEncrypt
    /\ lastDecrypt = NoDecrypt

InitCrypto ==
    /\ keypairs = [k \in KeyPairIds |-> NoKeyPair]
    /\ uses = [k \in KeyPairIds |-> 0]
    /\ shared = [k \in KeyPairIds |-> NoSecret]
    /\ contexts = [k \in KeyPairIds |-> NoContext]
    /\ nonceLog = [k \in KeyPairIds |-> [n \in Nonces |-> 0]]
    /\ lastEncrypt = NoEncrypt
    /\ lastDecrypt = NoDecrypt

-----------------------------------------------------------------------------
(* crates/core: SessionId and its textual forms.                           *)
(* A Uuid is kept as its 32 hexadecimal digits, most significant first; a  *)
(* string is a sequence of one-character strings.                          *)
HexLower == <<"0", "1", "2", "3", "4", "5", "6", "7", "8", "9",
              "a", "b", "c", "d", "e", "f">>
HexUpper == <<"0", "1", "2", "3", "4", "5", "6", "7", "8", "9",
              "A", "B", "C", "D", "E", "F">>

IsHex(ch) == \E v \in 1..16 : HexLower[v] = ch \/ HexUpper[v] = ch
HexValue(ch) == (CHOOSE v \in 1..16 : HexLower[v] = ch \/ HexUpper[v] = ch) - 1

\* The hyphens of the 8-4-4-4-12 form stand at these places of its 36.
HyphenAt == {9, 14, 19, 24}
\* Place i of the hyphenated form holds digit DigitIndex(i) of the 32.
DigitIndex(i) == i - Cardinality({h \in HyphenAt : h < i})

\* uuid's parser, simple form: 32 hexadecimal digits
parse_simple(s) ==
    IF \A i \in 1..32 : IsHex(s[i])
    THEN Ok([i \in 1..32 |-> HexValue(s[i])])
    ELSE Err("uuid", "invalid character")

\* uuid's parser, hyphenated form: 8-4-4-4-12
parse_hyphenated(s) ==
    IF /\ \A i \in HyphenAt : s[i] = "-"
       /\ \A i \in (1..36) \ HyphenAt : IsHex(s[i])
    THEN Ok([d \in 1..32 |->
               HexValue(s[CHOOSE i \in (1..36) \ HyphenAt : DigitIndex(i) = d])])
    ELSE Err("uuid", "invalid character")

UrnPrefix == <<"u", "r", "n", ":", "u", "u", "i", "d", ":">>

\* Uuid::parse_str: the form is chosen by the length of the input
parse_str(s) ==
    CASE Len(s) = 32 -> parse_simple(s)
      [] Len(s) = 36 -> parse_hyphenated(s)
      [] Len(s) = 38 /\ s[1] = "{" /\ s[38] = "}" -> parse_hyphenated(SubSeq(s, 2, 37))
      [] Len(s) = 45 /\ SubSeq(s, 1, 9) = UrnPrefix -> parse_hyphenated(SubSeq(s, 10, 45))
      [] OTHER -> Err("uuid", "invalid length")

\* SessionId::from_string
from_string(s) == parse_str(s)

\* Uuid's textual forms
Simple(u) == [i \in 1..32 |-> HexLower[u[i] + 1]]
Hyphenated(u) ==
    [i \in 1..36 |-> IF i \in HyphenAt THEN "-" ELSE HexLower[u[DigitIndex(i)] + 1]]

\* Two identifiers, and the session-id strings the peers send: the
\* hyphenated and the simple form of the first, the hyphenated form of the
\* second, and a nine-digit code.
UuidA == [i \in 1..32 |-> (7 * i) % 16]
UuidB == [i \in 1..32 |-> (3 * i + 1) % 16]
NineDigits == <<"1", "2", "3", "4", "5", "6", "7", "8", "9">>
SessionIdStrings == {Hyphenated(UuidA), Simple(UuidA), Hyphenated(UuidB), NineDigits}

HyphenatedUpper(u) ==
    [i \in 1..36 |-> IF i \in HyphenAt THEN "-" ELSE HexUpper[u[DigitIndex(i)] + 1]]
Braced(u) == <<"{">> \o Hyphenated(u) \o <<"}">>
Urn(u) == UrnPrefix \o Hyphenated(u)

\* impl Display for SessionId: (self.0.as_u128() % 1_000_000_000) as u32,
\* written with "{:09}". as_u128 reads the identifier's 16 bytes, most
\* significant first; the remainder is taken byte by byte,
\* (256 * r + byte) % Billion, the product by the two halves of r so that
\* every intermediate value fits TLC's integers.
Billion == 1000000000
Byte(u, n) == 16 * u[2 * n - 1] + u[2 * n]
Times256(x) ==
    (((256 * (x \div 100000)) % 10000) * 100000 + 256 * (x % 100000)) % Billion
RECURSIVE RemBillion(_, _)
RemBillion(u, n) ==
    IF n = 0 THEN 0 ELSE (Times256(RemBillion(u, n - 1)) + Byte(u, n)) % Billion
as_u128_rem(u) == RemBillion(u, 16)

\* the remainder narrowed to 16 bits
as_u16(x) == x % 65536

\* `as u32`: the low 32 bits, taken as two halves of 16
as_u32(x) == ((x \div 65536) % 65536) * 65536 + (x % 65536)

\* "{}" of an unsigned integer: its decimal digits
RECURSIVE Decimal(_)
Decimal(n) ==
    IF n < 10 THEN <<HexLower[n + 1]>>
    ELSE Append(Decimal(n \div 10), HexLower[(n % 10) + 1])

\* "{:0width}": zeros on the left up to the width
PadZero(s, width) ==
    IF Len(s) >= width THEN s
    ELSE [i \in 1..width |-> IF i <= width - Len(s) THEN "0" ELSE s[i - (width - Len(s))]]

\* format!("{}", session_id)
to_string(u) == PadZero(Decimal(as_u32(as_u128_rem(u))), 9)

\* SessionId::new: Uuid::new_v4 sets the version digit to 4 and the variant
\* digit to 8..b; the other digits are random. The model draws the leading
\* digits alike and the last nine from a few patterns.
Tails == {<<0, 0, 0, 0, 0, 0, 0, 0, 5>>, <<15, 15, 15, 15, 15, 15, 15, 15, 15>>,
          <<0, 3, 11, 9, 10, 12, 10, 0, 5>>}
new_v4(hi, tail) ==
    [i \in 1..32 |-> CASE i = 13 -> 4
                       [] i = 17 -> 8 + (hi % 4)
                       [] i > 23 -> tail[i - 23]
                       [] OTHER  -> hi]
GeneratedIds == {new_v4(hi, tail) : hi \in {0, 15}, tail \in Tails}

\* Identifiers that no SessionId::new returns but a string can name.
NilUuid == [i \in 1..32 |-> 0]
MaxUuid == [i \in 1..32 |-> 15]

\* a call that has not been made
NoCall == [done |-> FALSE, input |-> <<>>, result |-> Err("", "")]

-----------------------------------------------------------------------------
(* crates/crypto: passwords.                                               *)
(* A string is kept as the pieces `$` separates it into, each piece a      *)
(* sequence of tokens: "$argon2id$v=19$..." is <<<<>>, <<"argon2id">>,     *)
(* <<"v=", "19">>, ...>> and "not-a-hash" is <<<<"not-a-hash">>>>.        *)
(* Argon2 is an ideal hash: its output is the term of everything it was    *)
(* computed from.                                                          *)
Passwords == {"", "secure-password-123", "wrong-password"}
Salts == {"c2FsdEE", "c2FsdEI"}            \* SaltString::generate(&mut OsRng)
None == <<"None">>

\* Argon2::default(): Argon2id, version 0x13, m=19456, t=2, p=1
DefaultAlgorithm == <<"argon2id">>
DefaultVersion == "19"
DefaultParams == <<"m", "=", "19456", ",", "t", "=", "2", ",", "p", "=", "1">>
Argon2Algorithms == {<<"argon2d">>, <<"argon2i">>, <<"argon2id">>}
Argon2Versions == {"16", "19"}
\* the identifiers a PHC string may name as its algorithm
Idents == Argon2Algorithms \cup {<<"pbkdf2-sha256">>}

\* the output of the Argon2 function
Argon2Output(algorithm, version, params, salt, password) ==
    <<"argon2", algorithm[1], version, salt>> \o params \o <<password>>

\* PasswordHash::to_string: the PHC string of a hash
PhcString(algorithm, version, params, salt, output) ==
    <<<<>>, algorithm, <<"v=", version>>, params, salt, output>>

\* PasswordHash::new: the PHC string is split at `$`; the piece before the
\* first `$` is empty, the algorithm follows, then an optional version
\* ("v=.."), optional parameters (a piece with `=`), an optional salt and an
\* optional hash; anything after that is an error
PasswordHash_new(s) ==
    LET n == Len(s)
        hasVersion == n >= 3 /\ s[3] # <<>> /\ s[3][1] = "v="
        p == IF hasVersion THEN 4 ELSE 3
        hasParams == n >= p /\ \E j \in 1..Len(s[p]) : s[p][j] = "="
        q == IF hasParams THEN p + 1 ELSE p
    IN  IF s[1] # <<>> \/ n < 2 THEN Err("password_hash", "invalid PHC string")
        ELSE IF s[2] \notin Idents THEN Err("password_hash", "invalid algorithm identifier")
        ELSE IF hasVersion /\ (Len(s[3]) # 2 \/ s[3][2] \notin Argon2Versions \cup {"1"})
             THEN Err("password_hash", "invalid version")
        ELSE IF n > q + 1 THEN Err("password_hash", "trailing data")
        ELSE Ok([algorithm |-> s[2],
                 version |-> IF hasVersion THEN <<s[3][2]>> ELSE None,
                 params |-> IF hasParams THEN s[p] ELSE <<>>,
                 salt |-> IF n >= q THEN s[q] ELSE None,
                 hash |-> IF n >= q + 1 THEN s[q + 1] ELSE None])

\* Argon2's PasswordVerifier::verify_password: the hash is recomputed from
\* the algorithm, version, parameters and salt of parsed_hash and compared
\* with its output
argon2_verify_password(password, parsed_hash) ==
    LET version == IF parsed_hash.version = None THEN DefaultVersion
                   ELSE parsed_hash.version[1]
    IN  /\ parsed_hash.salt # None
        /\ parsed_hash.hash # None
        /\ parsed_hash.algorithm \in Argon2Algorithms
        /\ version \in Argon2Versions
        /\ parsed_hash.params = DefaultParams
        /\ parsed_hash.hash = Argon2Output(parsed_hash.algorithm, version,
                                           parsed_hash.params, parsed_hash.salt[1], password)

\* hash_password, with the salt SaltString::generate returned and whether
\* Argon2 produced a hash
hash_password(password, salt, hashes) ==
    IF hashes
    THEN Ok(PhcString(DefaultAlgorithm, DefaultVersion, DefaultParams, <<salt>>,
                      Argon2Output(DefaultAlgorithm, DefaultVersion, DefaultParams,
                                   salt, password)))
    ELSE Err("Authentication", <<"Password hashing failed: ", "argon2">>)

\* a verification that looks at the salt only
verify_password_by_salt(password, hash) ==
    LET parsed_hash == PasswordHash_new(hash)
    IN  IF ~parsed_hash.ok
        THEN Err("Authentication", <<"Invalid hash: ", parsed_hash.text>>)
        ELSE Ok(parsed_hash.value.salt # None /\ parsed_hash.value.hash # None)

\* verify_password
verify_password(password, hash) ==
    LET parsed_hash == PasswordHash_new(hash)
    IN  IF ~parsed_hash.ok
        THEN Err("Authentication", <<"Invalid hash: ", parsed_hash.text>>)
        ELSE IF argon2_verify_password(password, parsed_hash.value)
             THEN Ok(TRUE) ELSE Ok(FALSE)

\* rng.gen_range(0..1_000_000_000): the integers the model draws
SessionPasswordNumbers == {0, 7, 99999999, 100000000, 123456789, 999999999}

\* a code printed without its leading zeros
generate_session_password_unpadded(n) == Decimal(n)

\* generate_session_password, with the integer gen_range returned
generate_session_password(n) == PadZero(Decimal(n), 9)

\* the hash strings a caller can pass to verify_password: the one
\* hash_password returned, that string with a piece changed or dropped, and
\* strings that are no PHC string
HashStrings ==
    (IF hashed.done /\ hashed.result.ok
     THEN LET h == hashed.result.value
          IN  {h,
               <<h[1], h[2], h[4], h[5], h[6]>>,
               <<h[1], h[2], h[3], h[4], h[5]>>,
               [h EXCEPT ![2] = <<"argon2i">>],
               [h EXCEPT ![2] = <<"pbkdf2-sha256">>],
               [h EXCEPT ![5] = <<"c2FsdEM">>],
               h \o <<<<"x">>>>}
     ELSE {})
    \cup {<<<<"not-a-hash">>>>, <<<<>>>>}

InitPasswords ==
    /\ hashed = NoCall
    /\ verified = NoCall
    /\ generated = NoCall

HashPassword(password, salt, hashes) ==
    /\ hashed' = [done |-> TRUE, input |-> password,
                  result |-> hash_password(password, salt, hashes)]
    /\ UNCHANGED <<verified, generated>>
    /\ UNCHANGED <<cryptoVars, relayVars, appVars, peerVars, desktopVars>>

VerifyPassword(password, hash) ==
    /\ verified' = [done |-> TRUE, input |-> [password |-> password, hash |-> hash],
                    result |-> verify_password(password, hash)]
    /\ UNCHANGED <<hashed, generated>>
    /\ UNCHANGED <<cryptoVars, relayVars, appVars, peerVars, desktopVars>>

GenerateSessionPassword(n) ==
    /\ generated' = [done |-> TRUE, input |-> n,
                     result |-> generate_session_password(n)]
    /\ UNCHANGED <<hashed, verified>>
    /\ UNCHANGED <<cryptoVars, relayVars, appVars, peerVars, desktopVars>>

-----------------------------------------------------------------------------
(* desktop: the commands of the host and of the client application.        *)
NoSessionConfig == [set |-> FALSE]

\* what became of the password argument: none given, hashed, or
\* hash_password failed
PasswordOutcomes == {"absent", "hashed", "hash_failed"}

SessionConfig(session_id, password_hash) ==
    [set |-> TRUE, session_id |-> session_id, mode |-> "FullControl",
     password_hash |-> password_hash, clipboard_sync |-> TRUE, quality |-> "Adaptive"]

SessionInfo(session_id, mode, status) ==
    [session_id |-> session_id, mode |-> mode, status |-> status]

\* what the user of the client application can type: the code the host
\* application shows, the textual forms of the host's identifier and of two
\* other identifiers, and a string that is no identifier
EnteredTexts ==
    (IF host_call.done /\ host_call.result.ok
     THEN {host_call.result.value.session_id} ELSE {})
    \cup (IF host_session.set
          THEN {Hyphenated(host_session.session_id), Simple(host_session.session_id),
                HyphenatedUpper(host_session.session_id),
                Braced(host_session.session_id), Urn(host_session.session_id)}
          ELSE {})
    \cup {Hyphenated(NilUuid), Simple(MaxUuid), <<"a", "d", "a">>}

InitApps ==
    /\ host_session = NoSessionConfig
    /\ host_call = NoCall
    /\ client_session = NoSessionConfig
    /\ client_call = NoCall

\* start_host_session, with the identifier SessionId::new returned
StartHostSession(id, password) ==
    /\ IF password = "hash_failed"
       THEN /\ host_call' = [done |-> TRUE, input |-> <<>>,
                             result |-> Err("String", "hash_password")]
            /\ UNCHANGED host_session
       ELSE /\ host_session' = SessionConfig(id, IF password = "hashed" THEN "hash" ELSE "none")
            /\ host_call' = [done |-> TRUE, input |-> <<>>,
                             result |-> Ok(SessionInfo(to_string(id), "host", "waiting"))]
    /\ UNCHANGED <<client_session, client_call>>
    /\ UNCHANGED <<cryptoVars, passwordVars, relayVars, peerVars, desktopVars>>

\* connect_to_session
ConnectToSession(session_id, password) ==
    /\ LET parsed == from_string(session_id)
       IN  IF parsed.ok
           THEN /\ client_session' =
                      SessionConfig(parsed.value, IF password = "hashed" THEN "hash" ELSE "none")
                /\ client_call' = [done |-> TRUE, input |-> session_id,
                                   result |-> Ok(SessionInfo(to_string(parsed.value),
                                                             "client", "connecting"))]
           ELSE /\ client_call' = [done |-> TRUE, input |-> session_id,
                                   result |-> Err("String", parsed.text)]
                /\ UNCHANGED client_session
    /\ UNCHANGED <<host_session, host_call>>
    /\ UNCHANGED <<cryptoVars, passwordVars, relayVars, peerVars, desktopVars>>

-----------------------------------------------------------------------------
(* crates/network: NetworkPeer.                                            *)
PeerIds == {"p", "q"}
ConnectionStates == {"Disconnected", "Connecting", "Connected", "Failed"}
NoPeer == [session_id |-> <<>>, connection_type |-> "none", state |-> "none"]
NoPeerCall == [op |-> "none", running |-> FALSE, result |-> Err("", ""), trail |-> <<>>]
\* the identifiers a caller passes to NetworkPeer::new and create_client
GivenIds == {UuidA, UuidB}

\* NetworkPeer::new
NetworkPeer_new(session_id, connection_type) ==
    [session_id |-> session_id, connection_type |-> connection_type,
     state |-> "Disconnected"]

\* connect, up to its first assignment and from there to its return
connect_begin(peer) == [peer EXCEPT !.state = "Connecting"]
connect_end(peer) == [peer EXCEPT !.state = "Connected"]

\* disconnect
disconnect(peer) == [peer EXCEPT !.state = "Disconnected"]

\* create_host, with the identifier SessionId::new returned
create_host(session_id) ==
    [NetworkPeer_new(session_id, "WebRTC") EXCEPT !.state = "Connecting"]

InitPeers ==
    /\ peers = [p \in PeerIds |-> NoPeer]
    /\ peer_calls = [p \in PeerIds |-> NoPeerCall]

\* no call is running on the peer held under p: a call borrows it mutably
Free(p) == ~peer_calls[p].running

New(p, session_id) ==
    /\ Free(p)
    /\ peers' = [peers EXCEPT ![p] = NetworkPeer_new(session_id, "WebRTC")]
    /\ peer_calls' = [peer_calls EXCEPT ![p] =
           [op |-> "new", running |-> FALSE, result |-> Ok(<<>>),
            trail |-> <<"Disconnected">>]]
    /\ UNCHANGED <<cryptoVars, passwordVars, relayVars, appVars, desktopVars>>

CreateHost(p, session_id) ==
    /\ Free(p)
    /\ peers' = [peers EXCEPT ![p] = create_host(session_id)]
    /\ peer_calls' = [peer_calls EXCEPT ![p] =
           [op |-> "create_host", running |-> FALSE, result |-> Ok(<<>>),
            trail |-> <<"Disconnected", "Connecting">>]]
    /\ UNCHANGED <<cryptoVars, passwordVars, relayVars, appVars, desktopVars>>

\* create_client: the peer is made and its connect is entered
CreateClientBegin(p, session_id) ==
    /\ Free(p)
    /\ peers' = [peers EXCEPT ![p] =
                    connect_begin(NetworkPeer_new(session_id, "WebRTC"))]
    /\ peer_calls' = [peer_calls EXCEPT ![p] =
           [op |-> "create_client", running |-> TRUE, result |-> Err("", ""),
            trail |-> <<"Disconnected", "Connecting">>]]
    /\ UNCHANGED <<cryptoVars, passwordVars, relayVars, appVars, desktopVars>>

\* connect is called on an existing peer
ConnectBegin(p) ==
    /\ Free(p)
    /\ peers[p] # NoPeer
    /\ peers' = [peers EXCEPT ![p] = connect_begin(@)]
    /\ peer_calls' = [peer_calls EXCEPT ![p] =
           [op |-> "connect", running |-> TRUE, result |-> Err("", ""),
            trail |-> <<"Connecting">>]]
    /\ UNCHANGED <<cryptoVars, passwordVars, relayVars, appVars, desktopVars>>

\* the connection attempt fails
ConnectEndFailing(p) ==
    /\ peer_calls[p].running
    /\ peers' = [peers EXCEPT ![p].state = "Failed"]
    /\ peer_calls' = [peer_calls EXCEPT ![p].running = FALSE,
                                        ![p].result = Err("Network", "connect"),
                                        ![p].trail = Append(@, "Failed")]
    /\ UNCHANGED <<cryptoVars, passwordVars, relayVars, appVars, desktopVars>>

\* connect returns Ok(()); inside create_client the peer is then returned
ConnectEnd(p) ==
    /\ peer_calls[p].running
    /\ peers' = [peers EXCEPT ![p] = connect_end(@)]
    /\ peer_calls' = [peer_calls EXCEPT ![p].running = FALSE,
                                        ![p].result = Ok(<<>>),
                                        ![p].trail = Append(@, "Connected")]
    /\ UNCHANGED <<cryptoVars, passwordVars, relayVars, appVars, desktopVars>>

Disconnect(p) ==
    /\ Free(p)
    /\ peers[p] # NoPeer
    /\ peers' = [peers EXCEPT ![p] = disconnect(@)]
    /\ peer_calls' = [peer_calls EXCEPT ![p] =
           [op |-> "disconnect", running |-> FALSE, result |-> Ok(<<>>),
            trail |-> <<"Disconnected">>]]
    /\ UNCHANGED <<cryptoVars, passwordVars, relayVars, appVars, desktopVars>>

-----------------------------------------------------------------------------
(* desktop: one application, its AppState and its four commands. Each      *)
(* command is one step: it writes current_session under the Mutex.         *)
NoCommand ==
    [name |-> "none", input |-> <<>>, result |-> Err("", ""), before |-> NoSessionConfig]
\* Option<SessionInfo>
NoSessionInfo == [some |-> FALSE]
SomeSessionInfo(info) == [some |-> TRUE, info |-> info]
\* what the user can pass to connect_to_session as the session id
DesktopTexts == {Hyphenated(UuidA), Simple(UuidB), NineDigits, <<"a", "d", "a">>}

\* the commands: the current_session each leaves and the result it returns
start_host_session(state, id, password) ==
    IF password = "hash_failed"
    THEN [current_session |-> state, result |-> Err("String", "hash_password")]
    ELSE [current_session |->
              SessionConfig(id, IF password = "hashed" THEN "hash" ELSE "none"),
          result |-> Ok(SessionInfo(to_string(id), "host", "waiting"))]

connect_to_session(state, session_id, password) ==
    LET parsed == from_string(session_id)
    IN  IF parsed.ok
        THEN [current_session |->
                  SessionConfig(parsed.value,
                                IF password = "hashed" THEN "hash" ELSE "none"),
              result |-> Ok(SessionInfo(to_string(parsed.value), "client", "connecting"))]
        ELSE [current_session |-> state, result |-> Err("String", parsed.text)]

\* a disconnect that leaves the session in place
disconnect_session_keeping(state) ==
    [current_session |-> state, result |-> Ok(<<>>)]

disconnect_session(state) ==
    [current_session |-> NoSessionConfig, result |-> Ok(<<>>)]

get_session_info(state) ==
    [current_session |-> state,
     result |-> IF state.set
                THEN Ok(SomeSessionInfo(SessionInfo(to_string(state.session_id),
                                                    state.mode, "connected")))
                ELSE Ok(NoSessionInfo)]

InitDesktop ==
    /\ current_session = NoSessionConfig
    /\ command = NoCommand

\* the command called name returns r
Returns(name, input, r) ==
    /\ current_session' = r.current_session
    /\ command' = [name |-> name, input |-> input, result |-> r.result,
                   before |-> current_session]
    /\ UNCHANGED <<cryptoVars, passwordVars, relayVars, appVars, peerVars>>

StartHost(id, password) ==
    Returns("start_host_session", [session_id |-> id, password |-> password],
            start_host_session(current_session, id, password))

Connect(session_id, password) ==
    Returns("connect_to_session", [session_id |-> session_id, password |-> password],
            connect_to_session(current_session, session_id, password))

DisconnectSession ==
    Returns("disconnect_session", <<>>, disconnect_session(current_session))

GetSessionInfo ==
    Returns("get_session_info", <<>>, get_session_info(current_session))

-----------------------------------------------------------------------------
(* relay-server                                                            *)
Conns == {"X", "Y", "Z"}       \* connections; each is its own peer address
NoConn == "none"
MaxFrames == 3                 \* frames the relay reads, over all connections
Payloads == {"opaque"}         \* sdp / candidate contents

\* enum SignalingMessage, as decoded from a text frame
WithSessionId == {"register", "join", "offer", "answer", "ice_candidate"}
SignalingMessages ==
    [type : WithSessionId, session_id : SessionIdStrings, payload : Payloads]
      \cup [type : {"success", "error"}, session_id : {<<>>}, payload : Payloads]
NoMessage == [type |-> "none", session_id |-> <<>>, payload |-> ""]
\* a text frame serde_json::from_str rejects
InvalidText == [type |-> "invalid_text", session_id |-> <<>>, payload |-> ""]
\* the messages that carry negotiation material for the other peer
Forwardable == {"offer", "answer", "ice_candidate"}

\* the variants of the relay's enum SignalingMessage, by their serde tag
RelaySignalingVariants == WithSessionId \cup {"success", "error"}
\* the variants of crates/network's enum SignalingMessage, by their serde tag
ClientSignalingVariants ==
    {"register", "join", "offer", "answer", "ice_candidate", "error"}
\* serde's decoding of an internally tagged enum: the tag names a variant
relay_from_str(message) ==
    IF message.type \in RelaySignalingVariants THEN Ok(message)
    ELSE Err("Serialization", <<"unknown variant ", message.type>>)
client_from_str(message) ==
    IF message.type \in ClientSignalingVariants THEN Ok(message)
    ELSE Err("Serialization", <<"unknown variant ", message.type>>)

Success(message) == [type |-> "success", message |-> message]
Error(message) == [type |-> "error", message |-> message]
NoResponse == [type |-> "none", message |-> <<>>]

EmptyTable == [k \in {} |-> 0]
\* HashMap::insert
Insert(table, key, value) ==
    [k \in DOMAIN table \cup {key} |-> IF k = key THEN value ELSE table[k]]

NotStarted == [returned |-> FALSE, acked |-> FALSE, joined |-> FALSE]

\* Session.host_addr and Session.client_addr: the endpoints of the session
\* recorded under session_id other than c, when c is one of its two
Endpoints(table, session_id) ==
    IF session_id \in DOMAIN table
    THEN {table[session_id].host_addr, table[session_id].client_addr} \ {NoConn}
    ELSE {}
OtherEndpoints(table, session_id, c) ==
    IF c \in Endpoints(table, session_id) THEN Endpoints(table, session_id) \ {c} ELSE {}
InCall == {"lock", "locked", "loaded"}

InitRelay ==
    /\ accepting = TRUE
    /\ pc = [c \in Conns |-> "idle"]
    /\ cur = [c \in Conns |-> NoMessage]
    /\ resp = [c \in Conns |-> NoResponse]
    /\ writer = NoConn
    /\ sessions = EmptyTable
    /\ loaded = [c \in Conns |-> EmptyTable]
    /\ sent = [c \in Conns |-> 0]
    /\ received = 0
    /\ regReturned = {}
    /\ regAcked = {}
    /\ joinAcked = {}
    /\ joinedSince = {}
    /\ startedAfter = [c \in Conns |-> NotStarted]
    /\ overlapped = [c \in Conns |-> FALSE]
    /\ forwarded = [c \in Conns |-> {}]
    /\ owed = {}

\* main: listener.accept() returns a connection, its handler is spawned
Accept(c) ==
    /\ accepting
    /\ pc[c] = "idle"
    /\ pc' = [pc EXCEPT ![c] = "handshake"]
    /\ UNCHANGED <<accepting, cur, resp, writer, sessions, loaded, sent, received, forwarded, history>>
    /\ UNCHANGED <<cryptoVars, passwordVars, appVars, peerVars, desktopVars>>

\* main returns only once every handler it spawned has returned
AcceptFailWaiting ==
    /\ accepting
    /\ \A c \in Conns : pc[c] \in {"idle", "returned_ok", "returned_err"}
    /\ accepting' = FALSE
    /\ UNCHANGED <<pc, cur, resp, writer, sessions, loaded, sent, received, forwarded, history>>
    /\ UNCHANGED <<cryptoVars, passwordVars, appVars, peerVars, desktopVars>>

\* main: listener.accept() fails, the while-let loop ends and main returns Ok
AcceptFail ==
    /\ accepting
    /\ accepting' = FALSE
    /\ UNCHANGED <<pc, cur, resp, writer, sessions, loaded, sent, received, forwarded, history>>
    /\ UNCHANGED <<cryptoVars, passwordVars, appVars, peerVars, desktopVars>>

\* handle_connection: accept_async(stream).await?
Handshake(c, ok) ==
    /\ pc[c] = "handshake"
    /\ pc' = [pc EXCEPT ![c] = IF ok THEN "recv" ELSE "returned_err"]
    /\ UNCHANGED <<accepting, cur, resp, writer, sessions, loaded, sent, received, forwarded, history>>
    /\ UNCHANGED <<cryptoVars, passwordVars, appVars, peerVars, desktopVars>>

\* ws_receiver.next() yields None, or Some(Err): the loop ends, Ok(()) is returned
RecvEnd(c) ==
    /\ pc[c] = "recv"
    /\ pc' = [pc EXCEPT ![c] = "returned_ok"]
    /\ UNCHANGED <<accepting, cur, resp, writer, sessions, loaded, sent, received, forwarded, history>>
    /\ UNCHANGED <<cryptoVars, passwordVars, appVars, peerVars, desktopVars>>

\* a frame that is not text: continue
RecvNonText(c) ==
    /\ pc[c] = "recv"
    /\ received < MaxFrames
    /\ received' = received + 1
    /\ UNCHANGED <<accepting, pc, cur, resp, writer, sessions, loaded, sent, forwarded, history>>
    /\ UNCHANGED <<cryptoVars, passwordVars, appVars, peerVars, desktopVars>>

\* the decoding error is returned with `?`: the handler ends, nothing is sent
RecvInvalidTextClosing(c) ==
    /\ pc[c] = "recv"
    /\ received < MaxFrames
    /\ received' = received + 1
    /\ cur' = [cur EXCEPT ![c] = InvalidText]
    /\ pc' = [pc EXCEPT ![c] = "returned_err"]
    /\ UNCHANGED <<accepting, resp, writer, sessions, loaded, sent, forwarded, history>>
    /\ UNCHANGED <<cryptoVars, passwordVars, appVars, peerVars, desktopVars>>

\* a text frame serde_json cannot decode: the error response is built
RecvInvalidText(c) ==
    /\ pc[c] = "recv"
    /\ received < MaxFrames
    /\ received' = received + 1
    /\ cur' = [cur EXCEPT ![c] = InvalidText]
    /\ resp' = [resp EXCEPT ![c] = Error(<<"Invalid message format">>)]
    /\ pc' = [pc EXCEPT ![c] = "send"]
    /\ UNCHANGED <<accepting, writer, sessions, loaded, sent, forwarded, history>>
    /\ UNCHANGED <<cryptoVars, passwordVars, appVars, peerVars, desktopVars>>

\* Offer, Answer and IceCandidate are answered only for a registered session
UnlockedChecking(msg) ==
    CASE msg.type \in Forwardable /\ msg.session_id \notin DOMAIN sessions
                                    -> Error(<<"Session not found">>)
      [] msg.type = "offer"         -> Success(<<"Offer received">>)
      [] msg.type = "answer"        -> Success(<<"Answer received">>)
      [] msg.type = "ice_candidate" -> Success(<<"ICE candidate received">>)
      [] OTHER                      -> Error(<<"Invalid message type">>)

\* every message that takes no lock is acknowledged
UnlockedAcknowledging(msg) ==
    CASE msg.type = "offer"         -> Success(<<"Offer received">>)
      [] msg.type = "answer"        -> Success(<<"Answer received">>)
      [] msg.type = "ice_candidate" -> Success(<<"ICE candidate received">>)
      [] OTHER                      -> Success(<<"Message received">>)

\* handle_signaling_message, the arms that take no lock. The Offer, Answer
\* and IceCandidate arms return their Success and write to no connection:
\* no action of the relay changes `forwarded`.
Unlocked(msg) ==
    CASE msg.type = "offer"         -> Success(<<"Offer received">>)
      [] msg.type = "answer"        -> Success(<<"Answer received">>)
      [] msg.type = "ice_candidate" -> Success(<<"ICE candidate received">>)
      [] OTHER                      -> Error(<<"Invalid message type">>)

\* a text frame that decodes to msg: handle_signaling_message is entered;
\* Register and Join go on to state.write().await
RecvMessage(c, msg) ==
    /\ pc[c] = "recv"
    /\ received < MaxFrames
    /\ received' = received + 1
    /\ cur' = [cur EXCEPT ![c] = msg]
    /\ IF msg.type \in {"register", "join"}
       THEN /\ pc' = [pc EXCEPT ![c] = "lock"]
            /\ resp' = [resp EXCEPT ![c] = NoResponse]
       ELSE /\ pc' = [pc EXCEPT ![c] = "send"]
            /\ resp' = [resp EXCEPT ![c] = Unlocked(msg)]
    /\ startedAfter' = [startedAfter EXCEPT ![c] =
           [returned |-> msg.session_id \in regReturned,
            acked |-> msg.session_id \in regAcked,
            joined |-> msg.session_id \in joinAcked]]
    /\ overlapped' = [overlapped EXCEPT ![c] =
           msg.type \in {"register", "join"} /\ \E d \in Conns \ {c} : pc[d] \in InCall]
    /\ owed' = IF msg.type \in Forwardable
               THEN owed \cup {[to |-> d, type |-> msg.type, payload |-> msg.payload] :
                                  d \in OtherEndpoints(sessions, msg.session_id, c)}
               ELSE owed
    /\ UNCHANGED <<accepting, writer, sessions, loaded, sent, forwarded,
                   regReturned, regAcked, joinAcked, joinedSince>>
    /\ UNCHANGED <<cryptoVars, passwordVars, appVars, peerVars, desktopVars>>

AcquireWriteUnguarded(c) ==
    /\ pc[c] = "lock"
    /\ writer' = c
    /\ pc' = [pc EXCEPT ![c] = "locked"]
    /\ UNCHANGED <<accepting, cur, resp, sessions, loaded, sent, received, forwarded, history>>
    /\ UNCHANGED <<cryptoVars, passwordVars, appVars, peerVars, desktopVars>>

\* state.write().await completes: nobody else holds the lock
AcquireWrite(c) ==
    /\ pc[c] = "lock"
    /\ writer = NoConn
    /\ writer' = c
    /\ pc' = [pc EXCEPT ![c] = "locked"]
    /\ UNCHANGED <<accepting, cur, resp, sessions, loaded, sent, received, forwarded, history>>
    /\ UNCHANGED <<cryptoVars, passwordVars, appVars, peerVars, desktopVars>>

\* the write guard outlives the failed call
RegisterInvalidKeepingGuard(c) ==
    /\ pc[c] = "locked"
    /\ cur[c].type = "register"
    /\ ~from_string(cur[c].session_id).ok
    /\ pc' = [pc EXCEPT ![c] = "returned_err"]
    /\ UNCHANGED <<accepting, cur, resp, writer, sessions, loaded, sent, received, forwarded, history>>
    /\ UNCHANGED <<cryptoVars, passwordVars, appVars, peerVars, desktopVars>>

\* Register: SessionId::from_string fails, `?` returns the error through
\* handle_connection; the guard is dropped, nothing is sent
RegisterInvalid(c) ==
    /\ pc[c] = "locked"
    /\ cur[c].type = "register"
    /\ ~from_string(cur[c].session_id).ok
    /\ writer' = IF writer = c THEN NoConn ELSE writer
    /\ pc' = [pc EXCEPT ![c] = "returned_err"]
    /\ UNCHANGED <<accepting, cur, resp, sessions, loaded, sent, received, forwarded, history>>
    /\ UNCHANGED <<cryptoVars, passwordVars, appVars, peerVars, desktopVars>>

\* Register with a parsed id, or Join: the map operation starts on the table
BeginMapOp(c) ==
    /\ pc[c] = "locked"
    /\ cur[c].type = "register" => from_string(cur[c].session_id).ok
    /\ loaded' = [loaded EXCEPT ![c] = sessions]
    /\ pc' = [pc EXCEPT ![c] = "loaded"]
    /\ UNCHANGED <<accepting, cur, resp, writer, sessions, sent, received, forwarded, history>>
    /\ UNCHANGED <<cryptoVars, passwordVars, appVars, peerVars, desktopVars>>

\* the Session a Register inserts
NewSession(session_id, addr) ==
    [session_id |-> from_string(session_id).value,
     host_addr |-> addr, client_addr |-> NoConn]

\* a Register that keeps the record the table already holds
RegisterIfAbsent(table, session_id, addr) ==
    IF session_id \in DOMAIN table
    THEN [table |-> table,
          response |-> Success(<<"Session ", session_id, " registered">>)]
    ELSE [table |-> Insert(table, session_id, NewSession(session_id, addr)),
          response |-> Success(<<"Session ", session_id, " registered">>)]

\* a Register that keeps the client of the record it replaces
RegisterKeepingClient(table, session_id, addr) ==
    [table |-> Insert(table, session_id,
                  [NewSession(session_id, addr) EXCEPT !.client_addr =
                      IF session_id \in DOMAIN table
                      THEN table[session_id].client_addr ELSE NoConn]),
     response |-> Success(<<"Session ", session_id, " registered">>)]

\* the Register arm: the table and the response it leaves
Register(table, session_id, addr) ==
    [table |-> Insert(table, session_id, NewSession(session_id, addr)),
     response |-> Success(<<"Session ", session_id, " registered">>)]

JoinExclusive(table, session_id, addr) ==
    IF session_id \in DOMAIN table /\ table[session_id].client_addr = NoConn
    THEN [table |-> [table EXCEPT ![session_id].client_addr = addr],
          response |-> Success(<<"Joined session ", session_id>>)]
    ELSE [table |-> table, response |-> Error(<<"Session not found">>)]

JoinCreating(table, session_id, addr) ==
    IF session_id \in DOMAIN table
    THEN [table |-> [table EXCEPT ![session_id].client_addr = addr],
          response |-> Success(<<"Joined session ", session_id>>)]
    ELSE [table |-> Insert(table, session_id,
                       [session_id |-> from_string(session_id).value,
                        host_addr |-> NoConn, client_addr |-> addr]),
          response |-> Error(<<"Session not found">>)]

\* a Join that takes the session over
JoinAsHost(table, session_id, addr) ==
    IF session_id \in DOMAIN table
    THEN [table |-> [table EXCEPT ![session_id].client_addr = addr,
                                  ![session_id].host_addr = addr],
          response |-> Success(<<"Joined session ", session_id>>)]
    ELSE [table |-> table, response |-> Error(<<"Session not found">>)]

\* the Join arm: the table and the response it leaves
Join(table, session_id, addr) ==
    IF session_id \in DOMAIN table
    THEN [table |-> [table EXCEPT ![session_id].client_addr = addr],
          response |-> Success(<<"Joined session ", session_id>>)]
    ELSE [table |-> table, response |-> Error(<<"Session not found">>)]

\* the guard is still held when the response is sent
FinishMapOpKeepingGuard(c) ==
    /\ pc[c] = "loaded"
    /\ LET r == IF cur[c].type = "register"
                THEN Register(loaded[c], cur[c].session_id, c)
                ELSE Join(loaded[c], cur[c].session_id, c)
       IN  /\ sessions' = r.table
           /\ resp' = [resp EXCEPT ![c] = r.response]
           /\ joinedSince' = IF cur[c].type = "register"
                             THEN joinedSince \ {cur[c].session_id}
                             ELSE IF r.response.type = "success"
                                  THEN joinedSince \cup {cur[c].session_id}
                                  ELSE joinedSince
    /\ loaded' = [loaded EXCEPT ![c] = EmptyTable]
    /\ pc' = [pc EXCEPT ![c] = "send"]
    /\ regReturned' = IF cur[c].type = "register"
                      THEN regReturned \cup {cur[c].session_id} ELSE regReturned
    /\ UNCHANGED <<accepting, cur, writer, sent, received, forwarded,
                   regAcked, joinAcked, startedAfter, overlapped, owed>>
    /\ UNCHANGED <<cryptoVars, passwordVars, appVars, peerVars, desktopVars>>

\* the map operation completes, the response is built, the guard is dropped
FinishMapOp(c) ==
    /\ pc[c] = "loaded"
    /\ LET r == IF cur[c].type = "register"
                THEN Register(loaded[c], cur[c].session_id, c)
                ELSE Join(loaded[c], cur[c].session_id, c)
       IN  /\ sessions' = r.table
           /\ resp' = [resp EXCEPT ![c] = r.response]
           /\ joinedSince' = IF cur[c].type = "register"
                             THEN joinedSince \ {cur[c].session_id}
                             ELSE IF r.response.type = "success"
                                  THEN joinedSince \cup {cur[c].session_id}
                                  ELSE joinedSince
    /\ writer' = IF writer = c THEN NoConn ELSE writer
    /\ loaded' = [loaded EXCEPT ![c] = EmptyTable]
    /\ pc' = [pc EXCEPT ![c] = "send"]
    /\ regReturned' = IF cur[c].type = "register"
                      THEN regReturned \cup {cur[c].session_id} ELSE regReturned
    /\ UNCHANGED <<accepting, cur, sent, received, forwarded,
                   regAcked, joinAcked, startedAfter, overlapped, owed>>
    /\ UNCHANGED <<cryptoVars, passwordVars, appVars, peerVars, desktopVars>>

\* ws_sender.send(...).await?
Send(c, ok) ==
    /\ pc[c] = "send"
    /\ IF ok
       THEN /\ sent' = [sent EXCEPT ![c] = @ + 1]
            /\ pc' = [pc EXCEPT ![c] = "recv"]
       ELSE /\ sent' = sent
            /\ pc' = [pc EXCEPT ![c] = "returned_err"]
    /\ regAcked' = IF ok /\ cur[c].type = "register"
                   THEN regAcked \cup {cur[c].session_id} ELSE regAcked
    /\ joinAcked' = IF ok /\ cur[c].type = "join" /\ resp[c].type = "success"
                    THEN joinAcked \cup {cur[c].session_id} ELSE joinAcked
    /\ cur' = [cur EXCEPT ![c] = NoMessage]
    /\ resp' = [resp EXCEPT ![c] = NoResponse]
    /\ startedAfter' = [startedAfter EXCEPT ![c] = NotStarted]
    /\ overlapped' = [overlapped EXCEPT ![c] = FALSE]
    /\ UNCHANGED <<accepting, writer, sessions, loaded, received, forwarded, regReturned,
                   joinedSince, owed>>
    /\ UNCHANGED <<cryptoVars, passwordVars, appVars, peerVars, desktopVars>>

-----------------------------------------------------------------------------
Init ==
    InitCrypto /\ InitPasswords /\ InitRelay /\ InitApps /\ InitPeers /\ InitDesktop

NextKeys ==
    \/ \E k \in KeyPairIds : Generate(k)
    \/ \E k \in KeyPairIds : \E p \in KnownPublics : ComputeSharedSecret(k, p)
    \/ \E k \in KeyPairIds : FromSharedSecret(k)

SpecKeys == Init /\ [][NextKeys]_vars

NextChannel ==
    \/ \E k \in Parties : \E pt \in Plaintexts : \E ad \in AssociatedData :
          Encrypt(k, pt, ad)
    \/ \E k \in Parties : \E how \in Tamperings : \E ad \in AssociatedData :
          Decrypt(k, how, ad)

InitWithChannel ==
    InitChannel /\ InitPasswords /\ InitRelay /\ InitApps /\ InitPeers /\ InitDesktop

SpecChannel == InitWithChannel /\ [][NextChannel]_vars

\* Two connections, every signaling message.
Next ==
    \/ \E c \in {"X", "Y"} : Accept(c)
    \/ AcceptFail
    \/ \E c \in {"X", "Y"} : \E ok \in BOOLEAN : Handshake(c, ok)
    \/ \E c \in {"X", "Y"} : RecvEnd(c)
    \/ \E c \in {"X", "Y"} : RecvNonText(c)
    \/ \E c \in {"X", "Y"} : RecvInvalidText(c)
    \/ \E c \in {"X", "Y"} : \E msg \in SignalingMessages : RecvMessage(c, msg)
    \/ \E c \in {"X", "Y"} : AcquireWrite(c)
    \/ \E c \in {"X", "Y"} : RegisterInvalid(c)
    \/ \E c \in {"X", "Y"} : BeginMapOp(c)
    \/ \E c \in {"X", "Y"} : FinishMapOp(c)
    \/ \E c \in {"X", "Y"} : \E ok \in BOOLEAN : Send(c, ok)

Spec == Init /\ [][Next]_vars

\* Three connections that register and join one session id.
RegistryMessages ==
    [type : {"register", "join"}, session_id : {Hyphenated(UuidA)}, payload : Payloads]

NextThree ==
    \/ \E c \in Conns : Accept(c)
    \/ AcceptFail
    \/ \E c \in Conns : \E ok \in BOOLEAN : Handshake(c, ok)
    \/ \E c \in Conns : RecvEnd(c)
    \/ \E c \in Conns : RecvNonText(c)
    \/ \E c \in Conns : RecvInvalidText(c)
    \/ \E c \in Conns : \E msg \in RegistryMessages : RecvMessage(c, msg)
    \/ \E c \in Conns : AcquireWrite(c)
    \/ \E c \in Conns : BeginMapOp(c)
    \/ \E c \in Conns : FinishMapOp(c)
    \/ \E c \in Conns : \E ok \in BOOLEAN : Send(c, ok)

SpecThree == Init /\ [][NextThree]_vars

\* The password functions of crates/crypto.
NextPasswords ==
    \/ \E password \in Passwords : \E salt \in Salts : \E hashes \in BOOLEAN :
          HashPassword(password, salt, hashes)
    \/ \E password \in Passwords : \E hash \in HashStrings :
          VerifyPassword(password, hash)
    \/ \E n \in SessionPasswordNumbers : GenerateSessionPassword(n)

SpecPasswords == Init /\ [][NextPasswords]_vars

\* Two network peers.
NextPeers ==
    \/ \E p \in PeerIds : \E session_id \in GivenIds : New(p, session_id)
    \/ \E p \in PeerIds : \E session_id \in GeneratedIds : CreateHost(p, session_id)
    \/ \E p \in PeerIds : \E session_id \in GivenIds : CreateClientBegin(p, session_id)
    \/ \E p \in PeerIds : ConnectBegin(p)
    \/ \E p \in PeerIds : ConnectEnd(p)
    \/ \E p \in PeerIds : Disconnect(p)

SpecPeers == Init /\ [][NextPeers]_vars

\* One desktop application.
NextDesktop ==
    \/ \E id \in GeneratedIds : \E password \in PasswordOutcomes : StartHost(id, password)
    \/ \E session_id \in DesktopTexts : \E password \in PasswordOutcomes :
          Connect(session_id, password)
    \/ DisconnectSession
    \/ GetSessionInfo

SpecDesktop == Init /\ [][NextDesktop]_vars

\* The host and the client application.
NextApps ==
    \/ \E id \in GeneratedIds : \E password \in PasswordOutcomes :
          StartHostSession(id, password)
    \/ \E session_id \in EnteredTexts : \E password \in PasswordOutcomes :
          ConnectToSession(session_id, password)

SpecApps == Init /\ [][NextApps]_vars

-----------------------------------------------------------------------------
(* Properties of crates/crypto: C1 and C2 are checked under SpecKeys, C3   *)
(* to C5 under SpecChannel.                                                *)

\* The two key pairs have each been turned into a shared secret with the
\* other's public key.
Exchanged(a, b) ==
    /\ a # b
    /\ shared[a].set /\ shared[b].set
    /\ shared[a].peer_public = public_key(keypairs[b])
    /\ shared[b].peer_public = public_key(keypairs[a])

\* C1: two key pairs that compute their shared secrets from each other's
\* public keys obtain the same value.
C1_SharedSecretAgrees ==
    \A a, b \in KeyPairIds : Exchanged(a, b) => shared[a].value = shared[b].value

C1_Witness ==
    \E a, b \in KeyPairIds :
        /\ Exchanged(a, b)
        /\ keypairs[a].secret # keypairs[b].secret
        /\ shared[a].value = shared[b].value

\* C2: compute_shared_secret is called at most once on a key pair; after the
\* first call the key pair is gone and no further call is made on it.
C2_SecretUsedAtMostOnce ==
    \A k \in KeyPairIds :
        /\ uses[k] <= 1
        /\ uses[k] = 1 => keypairs[k].state = "moved" /\ ~ENABLED ComputeSharedSecret(k, keypairs[k].public)

C2_Witness ==
    \E k \in KeyPairIds : uses[k] = 1 /\ shared[k].set /\ keypairs[k].state = "moved"

\* The encrypt call that produced the message the latest decrypt was made on.
DecryptedCall == lastEncrypt

\* C3: decrypting what encrypt returned, with the associated data given to
\* encrypt and under the same key, succeeds and returns the plaintext.
C3_DecryptInvertsEncrypt ==
    (/\ lastDecrypt.done
     /\ lastDecrypt.em = DecryptedCall.result.value
     /\ lastDecrypt.aad = DecryptedCall.aad
     /\ lastDecrypt.key = DecryptedCall.key)
    => /\ lastDecrypt.result.ok
       /\ lastDecrypt.result.value = DecryptedCall.plaintext

C3_Witness ==
    /\ lastDecrypt.done
    /\ lastDecrypt.em = DecryptedCall.result.value
    /\ lastDecrypt.aad = DecryptedCall.aad
    /\ lastDecrypt.ctx # DecryptedCall.ctx
    /\ lastDecrypt.key = DecryptedCall.key
    /\ lastDecrypt.em.nonce # 0
    /\ lastDecrypt.result.ok
    /\ lastDecrypt.result.value = DecryptedCall.plaintext
    /\ Len(DecryptedCall.plaintext) > 0

\* C4: decrypt fails, and returns no plaintext, when the ciphertext was
\* altered, when the associated data differs from that given to encrypt, or
\* when the context holds another key.
C4_DecryptAllOrNothing ==
    (/\ lastDecrypt.done
     /\ \/ lastDecrypt.em.ciphertext # DecryptedCall.result.value.ciphertext
        \/ lastDecrypt.aad # DecryptedCall.aad
        \/ lastDecrypt.key # DecryptedCall.key)
    => /\ ~lastDecrypt.result.ok
       /\ lastDecrypt.result.value = <<>>

\* a decrypt under another key of an untouched message with the right
\* associated data has failed
C4_Witness ==
    /\ lastDecrypt.done
    /\ lastDecrypt.em = DecryptedCall.result.value
    /\ lastDecrypt.aad = DecryptedCall.aad
    /\ lastDecrypt.key # DecryptedCall.key
    /\ ~lastDecrypt.result.ok

\* C5: no two messages returned by encrypt on the same context carry the
\* same nonce.
C5_NonceNeverReused ==
    \A k \in KeyPairIds : \A n \in Nonces : nonceLog[k][n] <= 1

-----------------------------------------------------------------------------
(* Properties of the relay.                                                *)

JoinReturned(c) == pc[c] = "send" /\ cur[c].type = "join"
RegisterReturned(c) ==
    pc[c] = "send" /\ cur[c].type = "register" /\ resp[c].type = "success"
Joined(session_id) == Success(<<"Joined session ", session_id>>)

\* C6: a Join that is made after a Register of the same id was answered
\* with success is answered with success, whether or not another
\* connection has joined that id before. Checked under SpecThree.
C6_JoinAfterRegisterSucceeds ==
    \A c \in Conns :
        (JoinReturned(c) /\ startedAfter[c].acked)
        => resp[c] = Joined(cur[c].session_id)

\* X registered, Y joined and was answered, then Z joined the same id
C6_Witness ==
    /\ JoinReturned("Z")
    /\ startedAfter["Z"].acked
    /\ startedAfter["Z"].joined
    /\ cur["Z"].session_id \in DOMAIN sessions
    /\ sessions[cur["Z"].session_id].host_addr = "X"
    /\ sent["Y"] = 1 /\ pc["Y"] = "recv"
    /\ resp["Z"] = Joined(cur["Z"].session_id)

\* C7: a Join for a key the registry does not hold is answered with the
\* error "Session not found" and leaves the registry as it was.
C7_JoinUnknownSession ==
    [][\A c \in Conns :
          (/\ pc[c] = "loaded" /\ pc'[c] = "send"
           /\ cur[c].type = "join"
           /\ cur[c].session_id \notin DOMAIN sessions)
          => /\ resp'[c] = Error(<<"Session not found">>)
             /\ sessions' = sessions]_vars

\* a Join of a parseable id was answered so while another id is registered
C7_Witness ==
    \E c \in Conns :
        /\ JoinReturned(c)
        /\ from_string(cur[c].session_id).ok
        /\ cur[c].session_id \notin DOMAIN sessions
        /\ DOMAIN sessions # {}
        /\ resp[c] = Error(<<"Session not found">>)

\* C8: when the Register calls of two connections for different ids have
\* both returned, the registry holds both records.
C8_ConcurrentRegistersBothKept ==
    \A c, d \in Conns :
        (/\ c # d
         /\ RegisterReturned(c) /\ RegisterReturned(d)
         /\ cur[c].session_id # cur[d].session_id)
        => {cur[c].session_id, cur[d].session_id} \subseteq DOMAIN sessions

\* both calls have returned, and Y's began while X's was running
C8_Witness ==
    /\ RegisterReturned("X") /\ RegisterReturned("Y")
    /\ cur["X"].session_id # cur["Y"].session_id
    /\ overlapped["Y"]
    /\ {cur["X"].session_id, cur["Y"].session_id} \subseteq DOMAIN sessions
    /\ sessions[cur["X"].session_id].host_addr = "X"
    /\ sessions[cur["Y"].session_id].host_addr = "Y"

\* C9: a Join that starts after a Register of the same key has returned
\* its success finds the record.
C9_JoinSeesReturnedRegister ==
    \A c \in Conns :
        (JoinReturned(c) /\ startedAfter[c].returned)
        => /\ resp[c].type = "success"
           /\ cur[c].session_id \in DOMAIN sessions

\* the Join started between the Register's return and the sending of its
\* response, on another connection
C9_Witness ==
    \E c \in Conns :
        /\ JoinReturned(c)
        /\ startedAfter[c].returned /\ ~startedAfter[c].acked
        /\ resp[c].type = "success"
        /\ sessions[cur[c].session_id].host_addr # c

\* C10: a message whose session_id does not parse is answered with an
\* error, and the handler goes on.
C10_InvalidIdAnsweredWithError ==
    \A c \in Conns :
        (cur[c].type \in WithSessionId /\ ~from_string(cur[c].session_id).ok)
        => /\ pc[c] \notin {"returned_ok", "returned_err"}
           /\ pc[c] = "send" => resp[c].type = "error"

\* The places of a handler between the reading of a text message and the
\* sending of its response.
Handling == {"lock", "locked", "loaded", "send"}
\* The handler has returned: the connection is closed.
Closed(c) == pc[c] \in {"returned_ok", "returned_err"}
\* No handler has a step of its own left: each waits for its peer or is gone.
Quiescent == \A c \in Conns : pc[c] \in {"idle", "handshake", "recv"} \/ Closed(c)

\* C11: a text frame that does not decode is answered with the error
\* "Invalid message format" and leaves the registry as it was; once that
\* response is sent the handler reads the next frame of the connection.
C11_InvalidTextAnswered ==
    [][\A c \in Conns :
          /\ (pc[c] = "recv" /\ cur'[c] = InvalidText)
             => /\ pc'[c] = "send"
                /\ resp'[c] = Error(<<"Invalid message format">>)
                /\ sessions' = sessions
          /\ (pc[c] = "send" /\ cur[c] = InvalidText /\ sent'[c] # sent[c])
             => /\ sent'[c] = sent[c] + 1
                /\ pc'[c] = "recv"
                /\ sessions' = sessions]_vars

\* the error is about to be sent on a connection that was answered before,
\* with a session registered
C11_Witness ==
    \E c \in Conns :
        /\ pc[c] = "send"
        /\ cur[c] = InvalidText
        /\ resp[c] = Error(<<"Invalid message format">>)
        /\ sent[c] >= 1
        /\ DOMAIN sessions # {}

\* C12: the handling of a text message ends only by the sending of its
\* response; a response is one message on the connection the request came
\* from, sent before the next frame is read; nothing is sent by a handler
\* that is not answering a text message, so nothing for a frame that is not
\* text.
C12_OneResponsePerTextMessage ==
    [][\A c \in Conns :
          /\ (pc[c] \in Handling /\ pc'[c] \notin Handling) => pc[c] = "send"
          /\ sent'[c] # sent[c]
             => /\ pc[c] = "send" /\ pc'[c] = "recv"
                /\ sent'[c] = sent[c] + 1
                /\ \A d \in Conns \ {c} : sent'[d] = sent[d]]_vars

\* C13: the write lock is held only between its acquisition and the end of
\* the map operation: never by a handler that receives, sends or has ended.
C13_LockNotHeldAcrossIO ==
    \A c \in Conns : writer = c => pc[c] \in {"locked", "loaded"}

\* one handler sends the response of its Register or Join while another
\* holds the lock
C13_Witness ==
    \E c, d \in Conns :
        /\ c # d
        /\ pc[c] = "send" /\ cur[c].type \in {"register", "join"}
        /\ writer = d /\ pc[d] = "loaded"

\* C14: once no handler has a step left, every Offer, Answer and
\* IceCandidate read from one endpoint of a matched session has been
\* delivered to the other endpoint with its payload.
C14_PayloadForwarded ==
    Quiescent =>
        \A m \in owed : [type |-> m.type, payload |-> m.payload] \in forwarded[m.to]

\* C15: once no handler has a step left, the registry holds no record whose
\* host or client connection is closed.
C15_DepartedSessionRemoved ==
    Quiescent =>
        \A k \in DOMAIN sessions : \A c \in Conns :
            Closed(c) => c \notin {sessions[k].host_addr, sessions[k].client_addr}

\* C16: the step by which a handler ends leaves the registry, the accept
\* loop and every other handler as they were, and does not leave the lock
\* with the handler that ended.
C16_FailureIsolated ==
    [][\A c \in Conns :
          (~Closed(c) /\ pc'[c] \in {"returned_ok", "returned_err"})
          => /\ sessions' = sessions
             /\ accepting' = accepting
             /\ writer' # c
             /\ \A d \in Conns \ {c} :
                   /\ pc'[d] = pc[d] /\ cur'[d] = cur[d]
                   /\ resp'[d] = resp[d] /\ loaded'[d] = loaded[d]]_vars

\* a Register failed on one connection while a session was registered; the
\* accept loop runs and another handler has since taken the lock
C16_Witness ==
    \E c, d \in Conns :
        /\ c # d
        /\ pc[c] = "returned_err" /\ cur[c].type = "register"
        /\ pc[d] = "locked" /\ writer = d
        /\ DOMAIN sessions # {}
        /\ accepting

\* C17: a Register for a key the registry holds succeeds and replaces the
\* record by one with the sender as host and no client; the other records
\* stay.
C17_RegisterReplaces ==
    [][\A c \in Conns :
          (/\ pc[c] = "loaded" /\ pc'[c] = "send"
           /\ cur[c].type = "register"
           /\ cur[c].session_id \in DOMAIN sessions)
          => /\ resp'[c] = Success(<<"Session ", cur[c].session_id, " registered">>)
             /\ DOMAIN sessions' = DOMAIN sessions
             /\ sessions'[cur[c].session_id].host_addr = c
             /\ sessions'[cur[c].session_id].client_addr = NoConn
             /\ \A k \in DOMAIN sessions \ {cur[c].session_id} :
                   sessions'[k] = sessions[k]]_vars

\* the Register began after a Join of that key was answered with success,
\* and has left a record without client
C17_Witness ==
    \E c \in Conns :
        /\ RegisterReturned(c)
        /\ startedAfter[c].joined
        /\ sessions[cur[c].session_id].host_addr = c
        /\ sessions[cur[c].session_id].client_addr = NoConn

-----------------------------------------------------------------------------
(* Properties of SessionId and of the desktop commands, checked under      *)
(* SpecApps.                                                               *)

\* The code start_host_session has returned to the host's user.
ShownCode == host_call.result.value.session_id

\* C18: connect_to_session, given the code that start_host_session
\* returned, parses it.
C18_ShownCodeConnects ==
    (/\ host_call.done /\ host_call.result.ok
     /\ client_call.done
     /\ client_call.input = ShownCode)
    => client_call.result.ok

\* C19: from_string accepts one text per identifier: two parses that
\* succeed, one after the other, with the same identifier were given the
\* same text.
C19_OneTextPerIdentifier ==
    [][(/\ client_call.done /\ client_call.result.ok
        /\ client_call'.result.ok
        /\ client_session'.session_id = client_session.session_id)
       => client_call'.input = client_call.input]_vars

DecimalDigits == {HexLower[i] : i \in 1..10}

\* the number a text of n decimal digits denotes
RECURSIVE DecimalValue(_, _)
DecimalValue(s, n) ==
    IF n = 0 THEN 0 ELSE 10 * DecimalValue(s, n - 1) + HexValue(s[n])

\* The remainders of the 128-bit value by 2^9 and by 5^9, whose product is
\* 10^9: the first from the last nine bits, the second byte by byte.
RemTwoNine(u) == 256 * (Byte(u, 15) % 2) + Byte(u, 16)
RECURSIVE RemFiveNine(_, _)
RemFiveNine(u, n) ==
    IF n = 0 THEN 0 ELSE (256 * RemFiveNine(u, n - 1) + Byte(u, n)) % 1953125

\* text is nine decimal digits, and the number it denotes is below 10^9 and
\* congruent to the value of u modulo 2^9 and modulo 5^9: it is the value
\* modulo 10^9, padded with zeros
IsNineDigitCodeOf(text, u) ==
    /\ Len(text) = 9
    /\ \A i \in 1..9 : text[i] \in DecimalDigits
    /\ DecimalValue(text, 9) % 512 = RemTwoNine(u)
    /\ DecimalValue(text, 9) % 1953125 = RemFiveNine(u, 16)

\* C20: the displayed form of an identifier is nine decimal digits that
\* denote its value modulo 10^9, and the narrowing to 32 bits leaves the
\* remainder as it is. Checked on the codes both applications return.
C20_DisplayIsValueModBillion ==
    /\ (host_call.done /\ host_call.result.ok)
       => /\ IsNineDigitCodeOf(ShownCode, host_session.session_id)
          /\ as_u32(as_u128_rem(host_session.session_id))
                = as_u128_rem(host_session.session_id)
    /\ (client_call.done /\ client_call.result.ok)
       => /\ IsNineDigitCodeOf(client_call.result.value.session_id,
                               client_session.session_id)
          /\ as_u32(as_u128_rem(client_session.session_id))
                = as_u128_rem(client_session.session_id)

\* the host shows a code that begins with a zero, and the client shows the
\* code of the largest identifier, 2^128 - 1
C20_Witness ==
    /\ host_call.done /\ host_call.result.ok
    /\ ShownCode[1] = "0"
    /\ as_u128_rem(host_session.session_id) >= 65536
    /\ client_call.done /\ client_call.result.ok
    /\ client_session.session_id = MaxUuid
    /\ client_call.result.value.session_id
          = <<"7", "6", "8", "2", "1", "1", "4", "5", "5">>


-----------------------------------------------------------------------------
(* Properties of the password functions, checked under SpecPasswords.      *)

\* the latest verify_password call was made on the string the latest
\* successful hash_password call returned
VerifiedAgainstHashed ==
    /\ verified.done
    /\ hashed.done /\ hashed.result.ok
    /\ verified.input.hash = hashed.result.value

\* C21: a password verifies against the hash hash_password made of it, and
\* no other password does: verify_password of pw2 against the hash of pw
\* returns true when pw2 = pw and false otherwise, for every salt.
C21_HashVerifyRoundTrip ==
    /\ VerifiedAgainstHashed
          => verified.result = Ok(verified.input.password = hashed.input)
    /\ \A pw \in Passwords, pw2 \in Passwords, salt \in Salts :
          verify_password(pw2, hash_password(pw, salt, TRUE).value) = Ok(pw2 = pw)

\* another password was tried against the hash of the empty password
C21_Witness ==
    /\ VerifiedAgainstHashed
    /\ hashed.input = ""
    /\ verified.input.password = "wrong-password"
    /\ verified.result = Ok(FALSE)

\* C22: verify_password never returns an error: whatever the password and
\* the hash string, a verification that does not succeed returns false.
C22_VerifyNeverErrs ==
    verified.done => verified.result.ok

\* C23: generate_session_password returns nine decimal digits, the
\* zero-padded decimal form of the integer drawn, which is at least 0 and
\* below 10^9.
C23_NineDigitPassword ==
    generated.done
       => /\ Len(generated.result) = 9
          /\ \A i \in 1..9 : generated.result[i] \in DecimalDigits
          /\ DecimalValue(generated.result, 9) = generated.input
          /\ generated.input >= 0 /\ generated.input < Billion

\* a password that needed padding: 7 is returned as 000000007
C23_Witness ==
    /\ generated.done
    /\ generated.input = 7
    /\ generated.result = <<"0", "0", "0", "0", "0", "0", "0", "0", "7">>


-----------------------------------------------------------------------------
(* Further properties of the relay, checked under Spec, and of the AEAD    *)
(* error kind, checked under SpecChannel.                                  *)

\* C24: an Offer, Answer or IceCandidate, for any session_id and from any
\* sender, is answered to its sender with a success; handling it and sending
\* the answer write to no other connection, deliver nothing to a peer and
\* leave the registry as it was.
C24_NegotiationOnlyAcknowledged ==
    [][\A c \in Conns :
          /\ (pc[c] = "recv" /\ cur'[c].type \in Forwardable)
             => /\ pc'[c] = "send"
                /\ resp'[c].type = "success"
                /\ sessions' = sessions
                /\ sent' = sent
                /\ forwarded' = forwarded
          /\ (pc[c] = "send" /\ cur[c].type \in Forwardable /\ pc'[c] # "send")
             => /\ pc'[c] = "recv" => sent'[c] = sent[c] + 1
                /\ \A d \in Conns \ {c} : sent'[d] = sent[d]
                /\ sessions' = sessions
                /\ forwarded' = forwarded]_vars

\* an offer for a session the sender is no endpoint of, and an offer for an
\* id nobody registered, both acknowledged
C24_Witness ==
    \E c \in Conns :
        /\ pc[c] = "send" /\ cur[c].type = "offer"
        /\ resp[c] = Success(<<"Offer received">>)
        /\ DOMAIN sessions # {}
        /\ \/ cur[c].session_id \notin DOMAIN sessions
           \/ /\ cur[c].session_id \in DOMAIN sessions
              /\ c \notin Endpoints(sessions, cur[c].session_id)

\* C25: a Join that succeeds sets the client handle of the record under the
\* given key to the sender and changes nothing else: the record's host
\* handle and session id and every other record stay as they were.
C25_JoinChangesOnlyClient ==
    [][\A c \in Conns :
          (/\ pc[c] = "loaded" /\ cur[c].type = "join"
           /\ pc'[c] = "send" /\ resp'[c].type = "success")
          => /\ cur[c].session_id \in DOMAIN sessions
             /\ sessions' = [sessions EXCEPT ![cur[c].session_id].client_addr = c]]_vars

\* a Join has succeeded on one of two records, whose host is another
\* connection
C25_Witness ==
    \E c \in Conns :
        /\ JoinReturned(c) /\ resp[c].type = "success"
        /\ sessions[cur[c].session_id].client_addr = c
        /\ sessions[cur[c].session_id].host_addr \notin {c, NoConn}
        /\ Cardinality(DOMAIN sessions) >= 2

\* C26: no two keys of the registry denote the same SessionId, and a Join
\* whose text parses to the SessionId of a record finds that record.
C26_KeyedBySessionId ==
    /\ \A k1, k2 \in DOMAIN sessions :
          sessions[k1].session_id = sessions[k2].session_id => k1 = k2
    /\ \A c \in Conns :
          (/\ pc[c] = "loaded" /\ cur[c].type = "join"
           /\ from_string(cur[c].session_id).ok
           /\ \E k \in DOMAIN loaded[c] :
                 loaded[c][k].session_id = from_string(cur[c].session_id).value)
          => Join(loaded[c], cur[c].session_id, c).response.type = "success"

\* C27: every response the relay sends is a variant the client-side message
\* type decodes, and every variant of the client-side type is one the relay
\* decodes.
C27_MessageTypesAgree ==
    /\ \A c \in Conns : pc[c] = "send" => client_from_str(resp[c]).ok
    /\ \A m \in SignalingMessages :
          m.type \in ClientSignalingVariants => relay_from_str(m).ok

\* C28: a failed decrypt returns an error of kind Decoding and a failed
\* encrypt an error of kind Encoding.
C28_AeadFailureKind ==
    /\ (lastDecrypt.done /\ ~lastDecrypt.result.ok)
          => lastDecrypt.result.kind = "Decoding"
    /\ (lastEncrypt.done /\ ~lastEncrypt.result.ok)
          => lastEncrypt.result.kind = "Encoding"

\* what each string a message can carry as its session_id parses to
ParseOfKey == [k \in SessionIdStrings |-> from_string(k)]

\* C29: every record of the registry has its host handle set and holds the
\* SessionId its key parses to, and its client handle is set only if a Join
\* for its key has succeeded since the key was last registered.
C29_RecordsWellFormed ==
    \A k \in DOMAIN sessions :
        /\ sessions[k].host_addr \in Conns
        /\ ParseOfKey[k].ok
        /\ sessions[k].session_id = ParseOfKey[k].value
        /\ sessions[k].client_addr \in Conns \cup {NoConn}
        /\ sessions[k].client_addr # NoConn => k \in joinedSince

\* one record has been joined, another has not
C29_Witness ==
    \E k1, k2 \in DOMAIN sessions :
        /\ sessions[k1].client_addr \in Conns /\ k1 \in joinedSince
        /\ sessions[k2].client_addr = NoConn /\ k2 \notin joinedSince
        /\ sessions[k2].host_addr \in Conns

\* C30: a success or error message from a peer is answered with the error
\* "Invalid message type"; handling and answering it leave the registry as
\* it was, and the handler ends only if the answer cannot be sent.
C30_ResponseTypesRejected ==
    [][\A c \in Conns :
          /\ (pc[c] = "recv" /\ cur'[c].type \in {"success", "error"})
             => /\ pc'[c] = "send"
                /\ resp'[c] = Error(<<"Invalid message type">>)
                /\ sessions' = sessions
          /\ (pc[c] = "send" /\ cur[c].type \in {"success", "error"} /\ pc'[c] # "send")
             => /\ sessions' = sessions
                /\ pc'[c] \in {"recv", "returned_err"}
                /\ pc'[c] = "returned_err" => sent'[c] = sent[c]
                /\ pc'[c] = "recv" => sent'[c] = sent[c] + 1]_vars

\* a success message read on a connection of a relay with a record, after
\* an earlier answer on that connection
C30_Witness ==
    \E c \in Conns :
        /\ pc[c] = "send" /\ cur[c].type = "success"
        /\ resp[c] = Error(<<"Invalid message type">>)
        /\ DOMAIN sessions # {}
        /\ sent[c] >= 1


-----------------------------------------------------------------------------
(* The accept loop of the relay, checked under Spec.                       *)

\* main has left its accept loop and returned Ok(())
MainReturned == ~accepting

\* C31: a failed accept ends the accept loop. While the loop runs an accept
\* can fail whatever the handlers are doing, and main then returns without
\* touching them; once main has returned it stays returned and no
\* connection is accepted any more.
C31_AcceptFailureEndsLoop ==
    /\ [](accepting => ENABLED AcceptFail)
    /\ [][/\ (accepting /\ MainReturned')
             => UNCHANGED <<pc, cur, resp, writer, sessions, loaded, sent, received>>
          /\ MainReturned
             => /\ MainReturned'
                /\ \A c \in Conns : pc[c] = "idle" => pc'[c] = "idle"]_vars

\* main has returned while one handler is inside a call and another
\* connection has never been accepted
C31_Witness ==
    /\ MainReturned
    /\ \E c \in Conns : pc[c] \in Handling
    /\ \E c \in {"X", "Y"} : pc[c] = "idle"


-----------------------------------------------------------------------------
(* NetworkPeer, checked under SpecPeers.                                   *)

\* C32: a peer made by new is Disconnected; a connect that has returned
\* went through Connecting, left the peer Connected and returned Ok; a
\* disconnect leaves it Disconnected; create_host returns a peer in
\* Connecting and create_client a peer in Connected; no peer is ever Failed.
C32_PeerStates ==
    \A p \in PeerIds :
        LET peer == peers[p]
            call == peer_calls[p]
        IN  /\ peer.state # "Failed"
            /\ "Failed" \notin {call.trail[i] : i \in 1..Len(call.trail)}
            /\ call.op = "new" => peer.state = "Disconnected"
            /\ call.running => peer.state = "Connecting"
            /\ (call.op = "connect" /\ ~call.running)
                  => /\ peer.state = "Connected"
                     /\ call.result.ok
                     /\ call.trail = <<"Connecting", "Connected">>
            /\ call.op = "disconnect"
                  => peer.state = "Disconnected" /\ call.result.ok
            /\ call.op = "create_host"
                  => peer.state = "Connecting" /\ call.result.ok
            /\ (call.op = "create_client" /\ ~call.running)
                  => peer.state = "Connected" /\ call.result.ok

\* a peer that create_host made has been connected, and a peer that
\* create_client made has been disconnected
C32_Witness ==
    \E p, q \in PeerIds :
        /\ peer_calls[p].op = "connect" /\ ~peer_calls[p].running
        /\ peers[p].session_id \in GeneratedIds
        /\ peers[p].state = "Connected"
        /\ peer_calls[q].op = "disconnect"
        /\ peers[q].session_id \in GivenIds
        /\ peers[q].state = "Disconnected"


-----------------------------------------------------------------------------
(* The desktop application, checked under SpecDesktop.                     *)

\* the configuration the latest command made from its input
NewConfig(id) ==
    SessionConfig(id, IF command.input.password = "hashed" THEN "hash" ELSE "none")

\* after connect_to_session: it succeeded exactly if the text parses, then
\* the session is the one of the parsed id; otherwise the session is as it was
AfterConnect ==
    LET parsed == from_string(command.input.session_id)
    IN  /\ command.result.ok <=> parsed.ok
        /\ command.result.ok
              => /\ current_session = NewConfig(parsed.value)
                 /\ command.result.value.session_id = to_string(parsed.value)
        /\ ~command.result.ok => current_session = command.before

\* after disconnect_session no session is held
AfterDisconnect == command.result.ok /\ ~current_session.set

\* get_session_info returns a session exactly when one is held, the one held
AfterGetSessionInfo ==
    /\ command.result.ok
    /\ current_session = command.before
    /\ command.result.value.some <=> current_session.set
    /\ command.result.value.some
          => command.result.value.info.session_id
                = to_string(current_session.session_id)

\* the commands other than start_host_session
AfterOtherCommands ==
    /\ current_session.set \in BOOLEAN
    /\ command.name = "connect_to_session" => AfterConnect
    /\ command.name = "disconnect_session" => AfterDisconnect
    /\ command.name = "get_session_info" => AfterGetSessionInfo

\* C33 as stated: the application holds at most one session; every
\* start_host_session and every successful connect_to_session replaces it
\* with the new session's configuration, disconnect_session clears it,
\* get_session_info returns a session exactly when one is held, and a
\* connect_to_session whose id does not parse returns an error and leaves
\* the session as it was.
C33_EveryStartReplaces ==
    /\ AfterOtherCommands
    /\ command.name = "start_host_session"
          => /\ command.result.ok
             /\ current_session = NewConfig(command.input.session_id)

\* C33: as above, with start_host_session replacing the session when it
\* succeeds; when hash_password fails it returns an error and leaves the
\* session as it was.
C33_OneCurrentSession ==
    /\ AfterOtherCommands
    /\ command.name = "start_host_session"
          => /\ command.result.ok <=> command.input.password # "hash_failed"
             /\ command.result.ok
                   => /\ current_session = NewConfig(command.input.session_id)
                      /\ command.result.value.session_id
                            = to_string(command.input.session_id)
             /\ ~command.result.ok => current_session = command.before

\* start_host_session has replaced a session a connect_to_session had set
C33_Witness ==
    /\ command.name = "start_host_session"
    /\ command.result.ok
    /\ command.before.set
    /\ command.before.session_id \in {UuidA, UuidB}
    /\ current_session.session_id # command.before.session_id

=============================================================================
